---------------------------- MODULE Spec2Model ----------------------------
(***************************************************************************)
(* The sportsbook ledger of Svidnet-Games: routers/sports.py (placement,   *)
(* cancellation, score settlement, force-settle, admin update-result and   *)
(* the leaderboard) and the settlement trigger of                          *)
(* app/services/odds_sync_scheduler.py.                                    *)
(*                                                                         *)
(* Committed database rows are the variables matches, bets, results and    *)
(* leaderboard.  A settlement pass runs in its own SQLAlchemy session: it  *)
(* reads committed rows, keeps what it loaded and wrote in the session     *)
(* (variable pass) and publishes its writes at each db.commit().           *)
(*                                                                         *)
(* Money is kept in cents (a float payout rounded to two decimals is an    *)
(* integer number of cents).  A nullable column is a set: {} for NULL and  *)
(* {v} for the value v.                                                    *)
(***************************************************************************)
EXTENDS Integers, Sequences, FiniteSets, TLC

VARIABLES
    now,          \* wall clock (datetime.now), in ticks
    feed,         \* what the score feed reports for each match
    matches,      \* sports_matches rows
    bets,         \* bets rows, with the immutable columns of their bet_picks
    results,      \* bet_picks.result, per bet and leg
    leaderboard,  \* sports_leaderboards rows, per sport category
    pass,         \* the settlement passes in flight, per caller
    lbCalls,      \* history: update_leaderboard applications per bet
    adminCalls,   \* history: force-settle and update-result requests served
    aborts,       \* history: settlement passes that were interrupted
    lastRun,      \* history: the scores of the last pass that returned
    probe,        \* the arguments handed to a function called on its own
    verdict,      \* what the function returned for probe
    sched,        \* the fields of the OddsSyncScheduler instance
    threads,      \* the threads start() has created, each at its place
    wall,         \* the scheduler's clock, in ticks of half a minute
    fired,        \* history: _trigger_sync calls per day and time of day
    sync_meta,    \* the sync_metadata row
    catalog,      \* sports_matches rows as the catalog sync keeps them
    sync,         \* the catalog sync in flight
    inflight      \* a cancel request between its checks and its commit

vars == <<now, feed, matches, bets, results, leaderboard, pass, lbCalls,
          adminCalls, aborts, lastRun, probe, verdict, sched, threads, wall,
          fired, sync_meta, catalog, sync, inflight>>

(* The ledger leaves the two variables of the resolution harness alone *)
harness == <<probe, verdict>>

(* The scheduler thread, the catalog sync and a cancel caught half way:    *)
(* the handlers of the ledger, taken as one transaction each, do not touch *)
(* them                                                                    *)
backstage == <<sched, threads, wall, fired, sync_meta, catalog, sync,
               inflight>>

-----------------------------------------------------------------------------
(* Bounds of the model *)

MaxBets == 2
MaxTime == 2
MaxAdminCalls == 1
MaxAborts == 1

(* Program constants *)

MinStake == 1
MaxStake == 1000
MinPicks == 1
MaxPicks == 10

-----------------------------------------------------------------------------
(* Nullable columns *)

Null == {}
Some(v) == {v}
Val(s) == CHOOSE v \in s : TRUE

(* models.sports.BetStatus / MatchStatus; NoResult is bet_picks.result NULL *)
PENDING == "pending"
WON == "won"
LOST == "lost"
PUSH == "push"
CANCELLED == "cancelled"
NoResult == "null"
UPCOMING == "upcoming"
COMPLETED == "completed"

Terminal == {WON, LOST, PUSH, CANCELLED}

-----------------------------------------------------------------------------
(* The catalog: two matches of two leagues, both starting at tick 1.        *)

Matches == {1, 2}
User == 1

CommenceTime(m) == 1

sport_key(m) == IF m = 1 THEN "basketball_nba" ELSE "basketball_euroleague"

(* sport_category_map of settle_completed_matches, cancel_bet and          *)
(* admin_force_settle_bet                                                  *)
SportCategory(key) ==
    IF key \in {"basketball_nba", "basketball_ncaab", "basketball_wnba",
                "basketball_euroleague"}
    THEN "basketball" ELSE "other"

(* category_map of update_match_result: it lacks basketball_euroleague     *)
ResultCategory(key) ==
    IF key \in {"basketball_nba", "basketball_ncaab", "basketball_wnba"}
    THEN "basketball" ELSE "other"

Categories == {"basketball", "other"}

(* Final scores the feed or the admin may report, and the legs and stakes   *)
(* a placement request may carry.                                          *)
ScorePairs == {<<1, 0>>, <<1, 1>>}
StakeMenu == {10}
Bettors == {User}
LegMenu ==
    { [match_id |-> 1, bet_type |-> "moneyline", selection |-> "home",
       odds |-> -110, point |-> Null],
      [match_id |-> 2, bet_type |-> "spread", selection |-> "home",
       odds |-> 150, point |-> Some(-1)] }

(* Requests: either leg alone, and the two as a parlay *)
RequestMenu ==
    { <<l>> : l \in LegMenu } \cup
    { <<k, l>> : k \in { x \in LegMenu : x.match_id = 1 },
                l \in { x \in LegMenu : x.match_id = 2 } }

-----------------------------------------------------------------------------
(* Payout arithmetic *)

Abs(x) == IF x < 0 THEN -x ELSE x

(* round(x, 2) of x = n/d, in cents: to nearest, ties to even *)
RoundCents(n, d) ==
    LET q == (100 * n) \div d
        r == (100 * n) % d
    IN  IF 2 * r > d \/ (2 * r = d /\ q % 2 = 1) THEN q + 1 ELSE q

(* calculate_payout computes in Python floats, IEEE 754 doubles: every     *)
(* operation returns the exact result rounded to a significand of          *)
(* MantissaBits bits, ties to even.  A double is [m, e], the value         *)
(* m * 2^e with m below 2^MantissaBits; m is a natural number written as   *)
(* the sequence of its digits in base Base, lowest first, <<>> for zero.   *)
Base == 4096
DigitBits == 12
MantissaBits == 53
QuotientBits == 64

RECURSIVE BigNorm(_)
BigNorm(a) ==
    IF a # <<>> /\ a[Len(a)] = 0 THEN BigNorm(SubSeq(a, 1, Len(a) - 1))
    ELSE a

RECURSIVE BigFromInt(_)
BigFromInt(n) ==
    IF n = 0 THEN <<>> ELSE <<n % Base>> \o BigFromInt(n \div Base)

RECURSIVE BigToInt(_)
BigToInt(a) == IF a = <<>> THEN 0 ELSE Head(a) + Base * BigToInt(Tail(a))

Low(a) == IF a = <<>> THEN 0 ELSE Head(a)
High(a) == IF a = <<>> THEN <<>> ELSE Tail(a)

RECURSIVE BigAddCarry(_, _, _)
BigAddCarry(a, b, carry) ==
    IF a = <<>> /\ b = <<>>
    THEN (IF carry = 0 THEN <<>> ELSE <<carry>>)
    ELSE LET t == Low(a) + Low(b) + carry
         IN  <<t % Base>> \o BigAddCarry(High(a), High(b), t \div Base)

BigAdd(a, b) == BigAddCarry(a, b, 0)

(* a - b for a >= b *)
RECURSIVE BigSubBorrow(_, _, _)
BigSubBorrow(a, b, borrow) ==
    IF a = <<>> THEN <<>>
    ELSE LET t == Head(a) - Low(b) - borrow
         IN  <<IF t < 0 THEN t + Base ELSE t>>
             \o BigSubBorrow(Tail(a), High(b), IF t < 0 THEN 1 ELSE 0)

BigSub(a, b) == BigNorm(BigSubBorrow(a, b, 0))

(* a < b, for a and b without leading zeros *)
RECURSIVE BigLessFrom(_, _, _)
BigLessFrom(a, b, i) ==
    IF i = 0 THEN FALSE
    ELSE IF a[i] # b[i] THEN a[i] < b[i]
    ELSE BigLessFrom(a, b, i - 1)

BigLess(a, b) ==
    IF Len(a) # Len(b) THEN Len(a) < Len(b) ELSE BigLessFrom(a, b, Len(a))

(* a * k for a small k *)
RECURSIVE BigMulCarry(_, _, _)
BigMulCarry(a, k, carry) ==
    IF a = <<>> THEN BigFromInt(carry)
    ELSE LET t == Head(a) * k + carry
         IN  <<t % Base>> \o BigMulCarry(Tail(a), k, t \div Base)

BigMulSmall(a, k) == BigNorm(BigMulCarry(a, k, 0))

RECURSIVE BigMulDigits(_, _)
BigMulDigits(a, b) ==
    IF b = <<>> THEN <<>>
    ELSE BigAdd(BigMulCarry(a, Head(b), 0), <<0>> \o BigMulDigits(a, Tail(b)))

BigMul(a, b) == BigNorm(BigMulDigits(a, b))

(* Quotient q and remainder r of a by a small d *)
RECURSIVE BigDivSmall(_, _)
BigDivSmall(a, d) ==
    IF a = <<>> THEN [q |-> <<>>, r |-> 0]
    ELSE LET hi == BigDivSmall(Tail(a), d)
             cur == hi.r * Base + Head(a)
         IN  [q |-> <<cur \div d>> \o hi.q, r |-> cur % d]

BigOdd(a) == a # <<>> /\ a[1] % 2 = 1

RECURSIVE BitsOf(_)
BitsOf(n) == IF n = 0 THEN 0 ELSE 1 + BitsOf(n \div 2)

BitLen(a) ==
    IF a = <<>> THEN 0 ELSE DigitBits * (Len(a) - 1) + BitsOf(a[Len(a)])

Pow2(n) ==
    [i \in 1..(n \div DigitBits) + 1 |->
       IF i <= n \div DigitBits THEN 0 ELSE 2 ^ (n % DigitBits)]

(* a shifted right by s bits: the quotient q, and whether a bit that was   *)
(* shifted out was set                                                     *)
RECURSIVE ShiftRight(_, _)
ShiftRight(a, s) ==
    IF a = <<>> \/ s = 0 THEN [q |-> a, sticky |-> FALSE]
    ELSE IF s >= DigitBits
    THEN LET rest == ShiftRight(Tail(a), s - DigitBits)
         IN  [q |-> rest.q, sticky |-> rest.sticky \/ Head(a) # 0]
    ELSE LET dv == BigDivSmall(a, 2 ^ s)
         IN  [q |-> BigNorm(dv.q), sticky |-> dv.r # 0]

(* a / 2^s, s >= 1, to the nearest integer, ties to even; sticky tells     *)
(* that a itself was cut off below                                         *)
RoundShift(a, sticky, s) ==
    LET sh == ShiftRight(a, s - 1)
        q == BigNorm(BigDivSmall(sh.q, 2).q)
    IN  IF BigOdd(sh.q) /\ (sticky \/ sh.sticky \/ BigOdd(q))
        THEN BigAdd(q, <<1>>) ELSE q

(* The double nearest to n * 2^e *)
FloatRound(n, sticky, e) ==
    LET extra == BitLen(n) - MantissaBits
    IN  IF extra <= 0 THEN [m |-> n, e |-> e]
        ELSE [m |-> RoundShift(n, sticky, extra), e |-> e + extra]

FloatOfInt(n) == [m |-> BigFromInt(n), e |-> 0]

(* An operand is bound by a quantifier where TLC has to know its value     *)
(* before it goes on, as Python has when it calls the next operation.      *)

(* a / b of two ints, true division *)
FloatDiv(a, b) ==
    CHOOSE x \in { FloatRound(BigNorm(dv.q), dv.r # 0, -QuotientBits) :
                     dv \in {BigDivSmall(BigMulSmall(Pow2(QuotientBits), a),
                                        b)} } : TRUE

(* x + 1 for a double x with a fraction part *)
FloatAddOne(x) ==
    CHOOSE y \in { FloatRound(n, FALSE, x.e) :
                     n \in {BigAdd(x.m, Pow2(-x.e))} } : TRUE

FloatMul(x, y) ==
    CHOOSE z \in { FloatRound(n, FALSE, x.e + y.e) :
                     n \in {BigMul(x.m, y.m)} } : TRUE

(* round(x, 2), as the number of cents: Python rounds the double's exact   *)
(* value, ties to even                                                     *)
Round2(x) ==
    LET n == BigMulSmall(x.m, 100)
    IN  IF x.e = 0 THEN n ELSE RoundShift(n, FALSE, -x.e)

(* Lines 168-172 *)
decimal_odds(american_odds) ==
    IF american_odds > 0
    THEN CHOOSE d \in { FloatAddOne(q) :
                          q \in {FloatDiv(american_odds, 100)} } : TRUE
    ELSE CHOOSE d \in { FloatAddOne(q) :
                          q \in {FloatDiv(100, Abs(american_odds))} } : TRUE

(* Lines 166-173: the loop over the legs' odds, from the first on *)
RECURSIVE total_decimal_odds(_)
total_decimal_odds(odds) ==
    IF odds = <<>> THEN FloatOfInt(1)
    ELSE CHOOSE total \in
            { FloatMul(t, d) :
                 t \in {total_decimal_odds(SubSeq(odds, 1, Len(odds) - 1))},
                 d \in {decimal_odds(odds[Len(odds)])} } : TRUE

(* calculate_payout on the legs' odds: the cents of the double returned *)
PayoutCents(odds, stake) ==
    CHOOSE cents \in
       { Round2(x) :
            x \in { FloatMul(FloatOfInt(stake), total) :
                       total \in {total_decimal_odds(odds)} } } : TRUE

OddsOf(legs) == [i \in DOMAIN legs |-> legs[i].odds]

(* The payouts of the ledger's legs and stakes, computed once: the set of   *)
(* the pairs <<odds and stake, cents>>                                     *)
LedgerPayouts ==
    { <<k, BigToInt(PayoutCents(k[1], k[2]))>> :
         k \in ({ OddsOf(r) : r \in RequestMenu }
                \cup { <<l.odds>> : l \in LegMenu }) \X StakeMenu }

calculate_payout(legs, stake) ==
    IF \E p \in LedgerPayouts : p[1] = <<OddsOf(legs), stake>>
    THEN (CHOOSE p \in LedgerPayouts : p[1] = <<OddsOf(legs), stake>>)[2]
    ELSE BigToInt(PayoutCents(OddsOf(legs), stake))

-----------------------------------------------------------------------------
(* Pick and bet resolution *)

TypeError == "TypeError"

(* A variant of determine_pick_result without the push of a leg exactly   *)
(* on its number                                                           *)
determine_pick_result_no_push(pick, match) ==
    IF match.status # COMPLETED \/ match.home_score = Null THEN PENDING
    ELSE LET home_score == Val(match.home_score)
             away_score == Val(match.away_score)
         IN  CASE pick.bet_type = "moneyline" ->
                    IF home_score = away_score
                    THEN (IF pick.selection = "draw" THEN WON ELSE PUSH)
                    ELSE IF home_score > away_score
                    THEN (IF pick.selection = "home" THEN WON ELSE LOST)
                    ELSE (IF pick.selection = "away" THEN WON ELSE LOST)
               [] pick.bet_type = "spread" ->
                    IF pick.point = Null THEN TypeError
                    ELSE LET home_with_spread == home_score + Val(pick.point)
                         IN  IF pick.selection = "home"
                             THEN (IF home_with_spread > away_score
                                   THEN WON ELSE LOST)
                             ELSE (IF home_with_spread < away_score
                                   THEN WON ELSE LOST)
               [] pick.bet_type = "total" ->
                    IF pick.point = Null THEN TypeError
                    ELSE LET total_points == home_score + away_score
                         IN  IF pick.selection = "over"
                             THEN (IF total_points > Val(pick.point)
                                   THEN WON ELSE LOST)
                             ELSE (IF total_points < Val(pick.point)
                                   THEN WON ELSE LOST)
               [] OTHER -> PENDING

(* determine_pick_result: the result of a leg against a match row.  A      *)
(* spread or total leg whose point is NULL makes Python raise TypeError    *)
(* (int + None, int > None).                                               *)
determine_pick_result(pick, match) ==
    IF match.status # COMPLETED \/ match.home_score = Null THEN PENDING
    ELSE LET home_score == Val(match.home_score)
             away_score == Val(match.away_score)
         IN  CASE pick.bet_type = "moneyline" ->
                    IF home_score = away_score
                    THEN (IF pick.selection = "draw" THEN WON ELSE PUSH)
                    ELSE IF home_score > away_score
                    THEN (IF pick.selection = "home" THEN WON ELSE LOST)
                    ELSE (IF pick.selection = "away" THEN WON ELSE LOST)
               [] pick.bet_type = "spread" ->
                    IF pick.point = Null THEN TypeError
                    ELSE LET home_with_spread == home_score + Val(pick.point)
                         IN  IF home_with_spread = away_score THEN PUSH
                             ELSE IF pick.selection = "home"
                             THEN (IF home_with_spread > away_score
                                   THEN WON ELSE LOST)
                             ELSE (IF home_with_spread < away_score
                                   THEN WON ELSE LOST)
               [] pick.bet_type = "total" ->
                    IF pick.point = Null THEN TypeError
                    ELSE LET total_points == home_score + away_score
                         IN  IF total_points = Val(pick.point) THEN PUSH
                             ELSE IF pick.selection = "over"
                             THEN (IF total_points > Val(pick.point)
                                   THEN WON ELSE LOST)
                             ELSE (IF total_points < Val(pick.point)
                                   THEN WON ELSE LOST)
               [] OTHER -> PENDING

(* The legs of a bet whose result, in the sequence res, is WON *)
RECURSIVE WonLegs(_, _)
WonLegs(legs, res) ==
    IF legs = <<>> THEN <<>>
    ELSE (IF Head(res) = WON THEN <<Head(legs)>> ELSE <<>>)
         \o WonLegs(Tail(legs), Tail(res))

ResultSet(res) == { res[i] : i \in DOMAIN res }

(* A variant of SettleOutcome that pays the potential payout on a mix of   *)
(* won and pushed legs                                                     *)
SettleOutcomeFullPayout(bet, res) ==
    LET any_lost == LOST \in ResultSet(res)
        all_push == ResultSet(res) \subseteq {PUSH}
    IN  IF any_lost THEN [status |-> LOST, actual_payout |-> 0]
        ELSE IF all_push
        THEN [status |-> PUSH, actual_payout |-> 100 * bet.stake]
        ELSE [status |-> WON, actual_payout |-> bet.potential_payout]

(* settle_completed_matches, lines 356-378: status and payout of a bet     *)
(* all of whose legs have a result                                         *)
SettleOutcome(bet, res) ==
    LET any_lost == LOST \in ResultSet(res)
        all_won == ResultSet(res) \subseteq {WON}
        all_push == ResultSet(res) \subseteq {PUSH}
        won_picks == WonLegs(bet.picks, res)
    IN  IF any_lost THEN [status |-> LOST, actual_payout |-> 0]
        ELSE IF all_won
        THEN [status |-> WON, actual_payout |-> bet.potential_payout]
        ELSE IF all_push
        THEN [status |-> PUSH, actual_payout |-> 100 * bet.stake]
        ELSE IF won_picks # <<>>
        THEN [status |-> WON,
              actual_payout |-> calculate_payout(won_picks, bet.stake)]
        ELSE [status |-> PUSH, actual_payout |-> 100 * bet.stake]

(* update_match_result, lines 1058-1070: no branch for a mix of results,   *)
(* the bet then keeps the status and payout it had                         *)
ResultOutcome(bet, res) ==
    LET any_lost == LOST \in ResultSet(res)
        all_won == ResultSet(res) \subseteq {WON}
        all_push == ResultSet(res) \subseteq {PUSH}
    IN  IF any_lost THEN [status |-> LOST, actual_payout |-> 0]
        ELSE IF all_won
        THEN [status |-> WON, actual_payout |-> bet.potential_payout]
        ELSE IF all_push
        THEN [status |-> PUSH, actual_payout |-> 100 * bet.stake]
        ELSE [status |-> bet.status, actual_payout |-> bet.actual_payout]

-----------------------------------------------------------------------------
(* Leaderboard *)

Max(a, b) == IF a > b THEN a ELSE b
Min(a, b) == IF a < b THEN a ELSE b

(* A row as SportsLeaderboard's column defaults make it; exists is FALSE   *)
(* while the table holds no row for the category.                          *)
NoRow ==
    [exists |-> FALSE, total_bets |-> 0, total_parlays |-> 0, bets_won |-> 0,
     bets_lost |-> 0, bets_pushed |-> 0, total_wagered |-> 0, total_won |-> 0,
     net_profit |-> 0, win_percentage |-> 0, current_streak |-> 0,
     best_win_streak |-> 0, biggest_win |-> 0]

(* LeaderboardRow, were a win to leave best_win_streak alone *)
LeaderboardRow_keeps_best(row, bet) ==
    LET streak == IF bet.status = WON
                  THEN (IF row.current_streak >= 0
                        THEN Max(1, row.current_streak + 1) ELSE 1)
                  ELSE IF bet.status = LOST
                  THEN (IF row.current_streak <= 0
                        THEN Min(-1, row.current_streak - 1) ELSE -1)
                  ELSE row.current_streak
    IN  [row EXCEPT
           !.exists = TRUE,
           !.total_bets = @ + 1,
           !.total_parlays = IF bet.is_parlay THEN @ + 1 ELSE @,
           !.total_wagered = @ + bet.stake,
           !.total_won = @ + (bet.actual_payout \div 100),
           !.net_profit = (row.total_won + (bet.actual_payout \div 100))
                             - (row.total_wagered + bet.stake),
           !.bets_won = IF bet.status = WON THEN @ + 1 ELSE @,
           !.bets_lost = IF bet.status = LOST THEN @ + 1 ELSE @,
           !.bets_pushed = IF bet.status = PUSH THEN @ + 1 ELSE @,
           !.current_streak = streak]

(* update_leaderboard, lines 221-247: the row after recording bet.         *)
(* total_won adds int(actual_payout), whole points; win_percentage is in   *)
(* hundredths of a percent.                                                *)
LeaderboardRow(row, bet) ==
    LET r1 == [row EXCEPT
                 !.exists = TRUE,
                 !.total_bets = @ + 1,
                 !.total_parlays = IF bet.is_parlay THEN @ + 1 ELSE @,
                 !.total_wagered = @ + bet.stake,
                 !.total_won = @ + (bet.actual_payout \div 100)]
        r2 == [r1 EXCEPT !.net_profit = r1.total_won - r1.total_wagered]
        streak == IF bet.status = WON
                  THEN (IF r2.current_streak >= 0
                        THEN Max(1, r2.current_streak + 1) ELSE 1)
                  ELSE IF bet.status = LOST
                  THEN (IF r2.current_streak <= 0
                        THEN Min(-1, r2.current_streak - 1) ELSE -1)
                  ELSE r2.current_streak
        r3 == IF bet.status = WON
              THEN [r2 EXCEPT
                      !.bets_won = @ + 1,
                      !.current_streak = streak,
                      !.best_win_streak = Max(@, streak),
                      !.biggest_win = Max(@, bet.actual_payout)]
              ELSE IF bet.status = LOST
              THEN [r2 EXCEPT !.bets_lost = @ + 1, !.current_streak = streak]
              ELSE IF bet.status = PUSH
              THEN [r2 EXCEPT !.bets_pushed = @ + 1]
              ELSE r2
        total_decided == r3.bets_won + r3.bets_lost
    IN  IF total_decided > 0
        THEN [r3 EXCEPT
                !.win_percentage = RoundCents(r3.bets_won * 100, total_decided)]
        ELSE r3

(* update_leaderboard on the table *)
update_leaderboard(lb, sport_category, bet) ==
    [lb EXCEPT ![sport_category] = LeaderboardRow(lb[sport_category], bet)]

-----------------------------------------------------------------------------
(* Rows and helpers *)

BetIds == 1..Len(bets)
LegIds(b) == 1..Len(bets[b].picks)

(* A set of integers as the ascending sequence Python iterates it in *)
RECURSIVE Ascending(_)
Ascending(S) ==
    IF S = {} THEN <<>>
    ELSE LET x == CHOOSE y \in S : \A z \in S : y <= z
         IN  <<x>> \o Ascending(S \ {x})

(* db.query(BetPick).filter(BetPick.match_id == m): the bets holding them  *)
BetsOnMatch(m) ==
    { b \in BetIds : \E i \in LegIds(b) : bets[b].picks[i].match_id = m }

(* The match row of update_match_result and of a settlement pass *)
CompletedRow(home_score, away_score) ==
    [status |-> COMPLETED, home_score |-> Some(home_score),
     away_score |-> Some(away_score)]

(* Sport category of a bet by the sport_category_map: its first leg's match *)
BetCategory(bet) == SportCategory(sport_key(bet.picks[1].match_id))

Passes == {"scheduler", "admin"}
Requesters == {User, 2, 3}

(* The bet_id of a path: the ids of stored bets, and ids with no row *)
BetIdInputs == 0..(MaxBets + 1)

(* The outcome argument of force-settle: any string, here the two the      *)
(* handler accepts and one it does not                                     *)
OutcomeInputs == {WON, LOST, PUSH}

(* is_user_admin of cancel_bet: requester 3 holds the admin role, the      *)
(* bettor and requester 2 do not                                           *)
IsAdmin(u) == u \in {3}

IdlePass ==
    [pc |-> "idle", scores |-> <<>>, ev |-> 0, affected |-> <<>>, cur |-> 0,
     match_row |-> Null, bet_row |-> Null, loaded |-> <<>>, dirty |-> {}]

(* settle_completed_matches, lines 297-311: the scores list of an event.   *)
(* An entry names a team and carries a score; name is "home" or "away"     *)
(* when it equals match.home_team or match.away_team and "other" when it   *)
(* equals neither.  int() accepts the strings of Digits.                   *)
Digits == <<"0", "1", "2", "3">>

(* ParseInt, were a score that is not a number read as 0 *)
ParseInt_lenient(score_val) ==
    IF score_val = Null THEN Null
    ELSE IF \E i \in DOMAIN Digits : Digits[i] = Val(score_val)
    THEN Some((CHOOSE i \in DOMAIN Digits : Digits[i] = Val(score_val)) - 1)
    ELSE Some(0)

(* int(score_val), ValueError and TypeError caught: Null when not a number *)
ParseInt(score_val) ==
    IF score_val = Null THEN Null
    ELSE IF \E i \in DOMAIN Digits : Digits[i] = Val(score_val)
    THEN Some((CHOOSE i \in DOMAIN Digits : Digits[i] = Val(score_val)) - 1)
    ELSE Null

(* The loop of lines 299-311 over the first n entries: a later entry of a  *)
(* team replaces an earlier one                                            *)
RECURSIVE ParsedUpTo(_, _)
ParsedUpTo(entries, n) ==
    IF n = 0 THEN [home |-> Null, away |-> Null]
    ELSE LET before == ParsedUpTo(entries, n - 1)
             score_int == ParseInt(entries[n].score)
         IN  IF score_int = Null THEN before
             ELSE IF entries[n].name = "home"
             THEN [before EXCEPT !.home = score_int]
             ELSE IF entries[n].name = "away"
             THEN [before EXCEPT !.away = score_int]
             ELSE before

(* The scores list is bound once, then the loop runs over it *)
ParsedScores(entries) ==
    CHOOSE parsed \in { ParsedUpTo(e, Len(e)) : e \in {entries} } : TRUE

(* app/services/odds_sync_scheduler.py: the OddsSyncScheduler instance and *)
(* its threads.  The clock counts ticks of half a minute; a day of the     *)
(* model has MinutesPerDay minutes, two of which are the times of day of   *)
(* sync_times.                                                             *)

MaxThreads == 2
MaxWall == 9
MaxFaults == 1
TicksPerMinute == 2
MinutesPerDay == 3
MaxTriggerTicks == 1

TicksPerDay == TicksPerMinute * MinutesPerDay

(* self.sync_times, [(6, 0), (15, 0)]: the minutes of the day that stand   *)
(* for 06:00 and 15:00                                                     *)
sync_times == {1, 2}

(* SETTLEMENT_INTERVAL_SECONDS, 30 minutes, in ticks; time.sleep(60) lasts *)
(* TicksPerMinute                                                          *)
SETTLEMENT_INTERVAL_TICKS == 2 * TicksPerMinute


(* since is the tick at which the thread began to wait where it is: the   *)
(* now_epoch of line 79 inside _trigger_settlement, the start of a sleep   *)
NoThread == [pc |-> "unborn", born |-> 0, hour |-> 0, since |-> 0, faults |-> 0]

(* External ids of the events the odds feed can list *)
EventIds == {1, 2}

(* No catalog sync is under way *)
NoSync == [pc |-> "idle", kind |-> "none", games |-> <<>>, count |-> 0]

(* __init__, lines 21-28; last_settlement_time = 0 is the epoch, more than *)
(* one interval before the clock starts.  models/sync_metadata.py: the row *)
(* does not exist before the first sync.                                   *)
BackstageInit ==
    /\ sched = [running |-> FALSE, thread |-> 0, joining |-> FALSE,
                last_sync_day |-> Null, synced_hours |-> {},
                last_settlement_time |-> -SETTLEMENT_INTERVAL_TICKS]
    /\ threads = [t \in 1..MaxThreads |-> NoThread]
    /\ wall = 0
    /\ fired = [d \in 0..(MaxWall \div TicksPerDay), h \in sync_times |-> 0]
    /\ sync_meta = [exists |-> FALSE, sync_status |-> "never",
                    last_sync_time |-> Null, games_synced |-> 0]
    /\ catalog = [e \in EventIds |-> Null]
    /\ sync = NoSync
    /\ inflight = Null

LedgerInit ==
    /\ now = 0
    /\ feed = [m \in Matches |->
                 [completed |-> FALSE, scores |-> <<>>]]
    /\ matches = [m \in Matches |->
                    [status |-> UPCOMING, home_score |-> Null,
                     away_score |-> Null]]
    /\ bets = <<>>
    /\ results = <<>>
    /\ leaderboard = [c \in Categories |-> NoRow]
    /\ pass = [p \in Passes |-> IdlePass]
    /\ lbCalls = <<>>
    /\ adminCalls = 0
    /\ aborts = 0
    /\ lastRun = Null
    /\ BackstageInit

NoProbe == [pick |-> <<>>, match |-> <<>>]

Init ==
    /\ LedgerInit
    /\ probe = NoProbe
    /\ verdict = NoResult

-----------------------------------------------------------------------------
(* The environment: time passes, and the feed reports a started match as   *)
(* completed, with both scores.                                            *)

Tick ==
    /\ now < MaxTime
    /\ now' = now + 1
    /\ UNCHANGED <<lastRun, harness, backstage>>
    /\ UNCHANGED <<feed, matches, bets, results, leaderboard, pass, lbCalls,
                   adminCalls, aborts>>

FeedReport(m, sp) ==
    /\ now > CommenceTime(m)
    /\ \E parsed \in {ParsedScores(feed[m].scores)} :
          parsed.home = Null \/ parsed.away = Null
    /\ feed' = [feed EXCEPT
                  ![m] = [completed |-> TRUE,
                          scores |-> <<[name |-> "home",
                                        score |-> Some(Digits[sp[1] + 1])],
                                       [name |-> "away",
                                        score |-> Some(Digits[sp[2] + 1])]>>]]
    /\ UNCHANGED <<lastRun, harness, backstage>>
    /\ UNCHANGED <<now, matches, bets, results, leaderboard, pass, lbCalls,
                   adminCalls, aborts>>

-----------------------------------------------------------------------------
(* Request handlers, each one transaction *)

(* place_bet without min_items and max_items on the list of picks *)
place_bet_any_length(user_id, picks, stake) ==
    /\ Len(bets) < MaxBets
    /\ stake >= MinStake /\ stake <= MaxStake
       \* len(matches) != len(match_ids): every leg names another match
    /\ \A i \in DOMAIN picks : picks[i].match_id \in Matches
    /\ Cardinality({ picks[i].match_id : i \in DOMAIN picks }) = Len(picks)
    /\ \A i \in DOMAIN picks : ~(CommenceTime(picks[i].match_id) <= now)
       \* unique_pick_per_bet: the insert fails, except Exception rolls back
    /\ \A i, j \in DOMAIN picks :
          i # j => <<picks[i].match_id, picks[i].bet_type, picks[i].selection>>
                   # <<picks[j].match_id, picks[j].bet_type, picks[j].selection>>
       \* calculate_payout divides by abs(odds): ZeroDivisionError, rolled back
    /\ \A i \in DOMAIN picks : picks[i].odds # 0
    /\ bets' = Append(bets,
                 [user_id |-> user_id, is_parlay |-> Len(picks) > 1,
                  total_picks |-> Len(picks), stake |-> stake,
                  potential_payout |-> calculate_payout(picks, stake),
                  actual_payout |-> 0, status |-> PENDING, picks |-> picks])
    /\ results' = Append(results, [i \in DOMAIN picks |-> NoResult])
    /\ lbCalls' = Append(lbCalls, 0)
    /\ UNCHANGED <<lastRun, harness, backstage>>
    /\ UNCHANGED <<now, feed, matches, leaderboard, pass, adminCalls, aborts>>

(* place_bet without the check that no referenced match has started *)
place_bet_after_start(user_id, picks, stake) ==
    /\ Len(bets) < MaxBets
    /\ Len(picks) >= MinPicks /\ Len(picks) <= MaxPicks
    /\ stake >= MinStake /\ stake <= MaxStake
       \* len(matches) != len(match_ids): every leg names another match
    /\ \A i \in DOMAIN picks : picks[i].match_id \in Matches
    /\ Cardinality({ picks[i].match_id : i \in DOMAIN picks }) = Len(picks)
       \* unique_pick_per_bet: the insert fails, except Exception rolls back
    /\ \A i, j \in DOMAIN picks :
          i # j => <<picks[i].match_id, picks[i].bet_type, picks[i].selection>>
                   # <<picks[j].match_id, picks[j].bet_type, picks[j].selection>>
       \* calculate_payout divides by abs(odds): ZeroDivisionError, rolled back
    /\ \A i \in DOMAIN picks : picks[i].odds # 0
    /\ bets' = Append(bets,
                 [user_id |-> user_id, is_parlay |-> Len(picks) > 1,
                  total_picks |-> Len(picks), stake |-> stake,
                  potential_payout |-> calculate_payout(picks, stake),
                  actual_payout |-> 0, status |-> PENDING, picks |-> picks])
    /\ results' = Append(results, [i \in DOMAIN picks |-> NoResult])
    /\ lbCalls' = Append(lbCalls, 0)
    /\ UNCHANGED <<lastRun, harness, backstage>>
    /\ UNCHANGED <<now, feed, matches, leaderboard, pass, adminCalls, aborts>>

(* place_bet *)
place_bet(user_id, picks, stake) ==
    /\ Len(bets) < MaxBets
    /\ Len(picks) >= MinPicks /\ Len(picks) <= MaxPicks
    /\ stake >= MinStake /\ stake <= MaxStake
       \* len(matches) != len(match_ids): every leg names another match
    /\ \A i \in DOMAIN picks : picks[i].match_id \in Matches
    /\ Cardinality({ picks[i].match_id : i \in DOMAIN picks }) = Len(picks)
    /\ \A i \in DOMAIN picks : ~(CommenceTime(picks[i].match_id) <= now)
       \* unique_pick_per_bet: the insert fails, except Exception rolls back
    /\ \A i, j \in DOMAIN picks :
          i # j => <<picks[i].match_id, picks[i].bet_type, picks[i].selection>>
                   # <<picks[j].match_id, picks[j].bet_type, picks[j].selection>>
       \* calculate_payout divides by abs(odds): ZeroDivisionError, rolled back
    /\ \A i \in DOMAIN picks : picks[i].odds # 0
    /\ bets' = Append(bets,
                 [user_id |-> user_id, is_parlay |-> Len(picks) > 1,
                  total_picks |-> Len(picks), stake |-> stake,
                  potential_payout |-> calculate_payout(picks, stake),
                  actual_payout |-> 0, status |-> PENDING, picks |-> picks])
    /\ results' = Append(results, [i \in DOMAIN picks |-> NoResult])
    /\ lbCalls' = Append(lbCalls, 0)
    /\ UNCHANGED <<lastRun, harness, backstage>>
    /\ UNCHANGED <<now, feed, matches, leaderboard, pass, adminCalls, aborts>>

(* cancel_bet, lines 859-864: the reversal on the leaderboard row *)
CancelRow(row, bet) ==
    IF ~row.exists THEN row
    ELSE LET r1 == [row EXCEPT
                      !.total_bets = Max(0, @ - 1),
                      !.total_parlays = IF bet.is_parlay
                                        THEN Max(0, @ - 1) ELSE @,
                      !.total_wagered = Max(0, @ - bet.stake)]
         IN  [r1 EXCEPT !.net_profit = r1.total_won - r1.total_wagered]

(* cancel_bet without the ownership check of line 809 *)
cancel_bet_any_requester(bet_id, user_id) ==
    /\ bet_id \in BetIds
    /\ bets[bet_id].status = PENDING
    /\ \A i \in LegIds(bet_id) :
          ~(CommenceTime(bets[bet_id].picks[i].match_id) <= now)
    /\ bets' = [bets EXCEPT ![bet_id].status = CANCELLED,
                            ![bet_id].actual_payout = 100 * bets[bet_id].stake]
    /\ results' = [results EXCEPT
                     ![bet_id] = [i \in LegIds(bet_id) |-> CANCELLED]]
    /\ leaderboard' =
         [leaderboard EXCEPT
            ![BetCategory(bets[bet_id])] = CancelRow(@, bets[bet_id])]
    /\ UNCHANGED <<lastRun, harness, backstage>>
    /\ UNCHANGED <<now, feed, matches, pass, lbCalls, adminCalls, aborts>>

(* cancel_bet *)
cancel_bet(bet_id, user_id) ==
    /\ bet_id \in BetIds
    /\ bets[bet_id].user_id = user_id \/ IsAdmin(user_id)
    /\ bets[bet_id].status = PENDING
    /\ \A i \in LegIds(bet_id) :
          ~(CommenceTime(bets[bet_id].picks[i].match_id) <= now)
    /\ bets' = [bets EXCEPT ![bet_id].status = CANCELLED,
                            ![bet_id].actual_payout = 100 * bets[bet_id].stake]
    /\ results' = [results EXCEPT
                     ![bet_id] = [i \in LegIds(bet_id) |-> CANCELLED]]
    /\ leaderboard' =
         [leaderboard EXCEPT
            ![BetCategory(bets[bet_id])] = CancelRow(@, bets[bet_id])]
    /\ UNCHANGED <<lastRun, harness, backstage>>
    /\ UNCHANGED <<now, feed, matches, pass, lbCalls, adminCalls, aborts>>

(* admin_force_settle_bet without the pending check of line 974 *)
admin_force_settle_bet_any_status(bet_id, outcome) ==
    /\ adminCalls < MaxAdminCalls
    /\ outcome \in {WON, LOST}
    /\ bet_id \in BetIds
    /\ LET bet == [bets[bet_id] EXCEPT
                     !.status = outcome,
                     !.actual_payout = IF outcome = WON
                                       THEN bets[bet_id].potential_payout
                                       ELSE 0]
       IN  /\ bets' = [bets EXCEPT ![bet_id] = bet]
           /\ results' = [results EXCEPT
                            ![bet_id] = [i \in LegIds(bet_id) |-> outcome]]
           /\ leaderboard' =
                update_leaderboard(leaderboard, BetCategory(bet), bet)
    /\ lbCalls' = [lbCalls EXCEPT ![bet_id] = @ + 1]
    /\ adminCalls' = adminCalls + 1
    /\ UNCHANGED <<lastRun, harness, backstage>>
    /\ UNCHANGED <<now, feed, matches, pass, aborts>>

(* admin_force_settle_bet *)
admin_force_settle_bet(bet_id, outcome) ==
    /\ adminCalls < MaxAdminCalls
    /\ outcome \in {WON, LOST}
    /\ bet_id \in BetIds
    /\ bets[bet_id].status = PENDING
    /\ LET bet == [bets[bet_id] EXCEPT
                     !.status = outcome,
                     !.actual_payout = IF outcome = WON
                                       THEN bets[bet_id].potential_payout
                                       ELSE 0]
       IN  /\ bets' = [bets EXCEPT ![bet_id] = bet]
           /\ results' = [results EXCEPT
                            ![bet_id] = [i \in LegIds(bet_id) |-> outcome]]
           /\ leaderboard' =
                update_leaderboard(leaderboard, BetCategory(bet), bet)
    /\ lbCalls' = [lbCalls EXCEPT ![bet_id] = @ + 1]
    /\ adminCalls' = adminCalls + 1
    /\ UNCHANGED <<lastRun, harness, backstage>>
    /\ UNCHANGED <<now, feed, matches, pass, aborts>>

(* update_match_result, lines 1056-1093: the bets of settled_bets, one     *)
(* after the other; acc holds the rows as the loop has left them           *)
RECURSIVE EvaluateBets(_, _)
EvaluateBets(ids, acc) ==
    IF ids = <<>> THEN acc
    ELSE LET b == Head(ids)
             out == ResultOutcome(acc.bets[b], acc.results[b])
             bet == [acc.bets[b] EXCEPT !.status = out.status,
                                        !.actual_payout = out.actual_payout]
             cat == ResultCategory(sport_key(bet.picks[1].match_id))
         IN  EvaluateBets(Tail(ids),
               IF bet.status # PENDING
               THEN [acc EXCEPT
                       !.bets[b] = bet,
                       !.leaderboard = update_leaderboard(@, cat, bet),
                       !.lbCalls[b] = @ + 1]
               ELSE acc)

(* update_match_result *)
update_match_result(match_id, home_score, away_score) ==
    /\ adminCalls < MaxAdminCalls
    /\ match_id \in Matches
    /\ LET match == CompletedRow(home_score, away_score)
           resolved ==
             [b \in BetIds |->
                [i \in LegIds(b) |->
                   IF bets[b].picks[i].match_id = match_id
                   THEN determine_pick_result(bets[b].picks[i], match)
                   ELSE results[b][i]]]
           acc == EvaluateBets(Ascending(BetsOnMatch(match_id)),
                    [bets |-> bets, results |-> resolved,
                     leaderboard |-> leaderboard, lbCalls |-> lbCalls])
       IN  /\ \A b \in BetIds : TypeError \notin ResultSet(resolved[b])
           /\ matches' = [matches EXCEPT ![match_id] = match]
           /\ results' = resolved
           /\ bets' = acc.bets
           /\ leaderboard' = acc.leaderboard
           /\ lbCalls' = acc.lbCalls
    /\ adminCalls' = adminCalls + 1
    /\ UNCHANGED <<lastRun, harness, backstage>>
    /\ UNCHANGED <<now, feed, pass, aborts>>

-----------------------------------------------------------------------------
(* settle_completed_matches, run by the scheduler's _trigger_settlement    *)
(* and by admin_settle_bets, each in a session of its own.  A pass is      *)
(* split where another session's commit may fall between its reads and     *)
(* its next db.commit().  The feed lists one sport after the other, each   *)
(* match of the catalog being the one event of its sport.                  *)

LastEvent == CHOOSE m \in Matches : \A k \in Matches : k <= m

(* A variant of EventSkippedIn that processes an event whose match is     *)
(* completed already                                                       *)
EventSkippedIgnoringStatus(ms, scores, e) ==
    \/ ~scores[e].completed
    \/ \E parsed \in {ParsedScores(scores[e].scores)} :
          parsed.home = Null \/ parsed.away = Null

(* Lines 280-319: the event is not completed, has no parsed score for a    *)
(* team, or its match is already completed in the table ms: the loop       *)
(* continues                                                               *)
EventSkippedIn(ms, scores, e) ==
    \/ ~scores[e].completed
    \/ \E parsed \in {ParsedScores(scores[e].scores)} :
          parsed.home = Null \/ parsed.away = Null
    \/ ms[e].status = COMPLETED

EventSkipped(scores, e) == EventSkippedIn(matches, scores, e)

(* The events from e on that the loop does not skip *)
EventsLeftIn(ms, scores, e) ==
    { k \in Matches : k >= e /\ ~EventSkippedIn(ms, scores, k) }

EventsLeft(scores, e) ==
    { k \in Matches : k >= e /\ ~EventSkipped(scores, k) }

(* The pass after the db.commit() that ends a sport's events: the session  *)
(* holds nothing, the next sport follows, the pass returns after the last  *)
NextEvent(ps) ==
    IF ps.ev = LastEvent THEN IdlePass
    ELSE [IdlePass EXCEPT !.pc = "match", !.scores = ps.scores,
                          !.ev = ps.ev + 1]

(* What db.commit() writes of the session: the match it marked and the     *)
(* results it set                                                          *)
FlushMatches(ps) ==
    IF ps.match_row = Null THEN matches
    ELSE [matches EXCEPT ![ps.ev] = Val(ps.match_row)]

FlushResults(ps) ==
    [b \in BetIds |->
       [i \in LegIds(b) |->
          IF <<b, i>> \in ps.dirty THEN ps.loaded[<<b, i>>]
          ELSE results[b][i]]]

(* Lines 263-272: the pass returns at once without a pending bet or        *)
(* without the scores; else it holds the scores as fetched                 *)
SettleBegin(p) ==
    /\ pass[p].pc = "idle"
    /\ \E b \in BetIds : bets[b].status = PENDING
    /\ pass' = [pass EXCEPT ![p] = [IdlePass EXCEPT !.pc = "match",
                                                    !.scores = feed,
                                                    !.ev = 1]]
    /\ UNCHANGED <<lastRun, harness, backstage>>
    /\ UNCHANGED <<now, feed, matches, bets, results, leaderboard, lbCalls,
                   adminCalls, aborts>>

(* Lines 277-278, 395-396: every event left is skipped, the pass returns   *)
SettleEnd(p) ==
    /\ pass[p].pc = "match"
    /\ EventsLeft(pass[p].scores, pass[p].ev) = {}
    /\ pass' = [pass EXCEPT ![p] = IdlePass]
    /\ lastRun' = Some(pass[p].scores)
    /\ UNCHANGED <<harness, backstage>>
    /\ UNCHANGED <<now, feed, matches, bets, results, leaderboard, lbCalls,
                   adminCalls, aborts>>

(* Lines 321-334: mark the match completed and resolve its legs that have  *)
(* no result, in the session                                               *)
SettleMatch(p) ==
    LET ps == pass[p]
        left == EventsLeft(ps.scores, ps.ev)
        m == CHOOSE k \in left : \A j \in left : k <= j
        row == CHOOSE r \in { CompletedRow(Val(parsed.home), Val(parsed.away)) :
                               parsed \in {ParsedScores(ps.scores[m].scores)} } :
                 TRUE
        keys == { <<b, i>> \in BetIds \X (1..MaxPicks) :
                    i \in LegIds(b) /\ bets[b].picks[i].match_id = m }
        open == { k \in keys : results[k[1]][k[2]] = NoResult }
        picked == [k \in keys |->
                     IF k \in open
                     THEN determine_pick_result(bets[k[1]].picks[k[2]], row)
                     ELSE results[k[1]][k[2]]]
    IN  /\ ps.pc = "match"
        /\ left # {}
        /\ \A k \in keys : picked[k] # TypeError
        /\ pass' = [pass EXCEPT ![p] =
                      [ps EXCEPT !.pc = "bet",
                                 !.ev = m,
                                 !.match_row = Some(row),
                                 !.loaded = picked,
                                 !.dirty = open,
                                 !.affected = Ascending(BetsOnMatch(m))]]
        /\ UNCHANGED <<lastRun, harness, backstage>>
        /\ UNCHANGED <<now, feed, matches, bets, results, leaderboard,
                       lbCalls, adminCalls, aborts>>

(* Lines 347-350: the next affected bet, as the database has it now *)
SettleLoadBet(p) ==
    LET ps == pass[p]
        b == Head(ps.affected)
    IN  /\ ps.pc = "bet"
        /\ ps.affected # <<>>
        /\ pass' = [pass EXCEPT ![p] =
                      IF bets[b].status # PENDING
                      THEN [ps EXCEPT !.affected = Tail(ps.affected)]
                      ELSE [ps EXCEPT !.pc = "finalize", !.cur = b,
                                      !.bet_row = Some(bets[b])]]
        /\ UNCHANGED <<lastRun, harness, backstage>>
        /\ UNCHANGED <<now, feed, matches, bets, results, leaderboard,
                       lbCalls, adminCalls, aborts>>

(* bet.picks as the session sees them: the legs it holds, the others as    *)
(* the database has them                                                   *)
SessionResults(ps, b) ==
    [i \in LegIds(b) |->
       IF <<b, i>> \in DOMAIN ps.loaded THEN ps.loaded[<<b, i>>]
       ELSE results[b][i]]

(* Lines 352-354: a leg without a result leaves the bet pending *)
SettleLeavePending(p) ==
    LET ps == pass[p]
    IN  /\ ps.pc = "finalize"
        /\ NoResult \in ResultSet(SessionResults(ps, ps.cur))
        /\ pass' = [pass EXCEPT ![p] =
                      [ps EXCEPT !.pc = "bet", !.cur = 0, !.bet_row = Null,
                                 !.affected = Tail(ps.affected)]]
        /\ UNCHANGED <<lastRun, harness, backstage>>
        /\ UNCHANGED <<now, feed, matches, bets, results, leaderboard,
                       lbCalls, adminCalls, aborts>>

(* Lines 356-391: finalize the bet and record it; update_leaderboard ends  *)
(* with db.commit(), which writes all the session holds                    *)
SettleFinalize(p) ==
    LET ps == pass[p]
        b == ps.cur
        res == SessionResults(ps, b)
        out == SettleOutcome(Val(ps.bet_row), res)
        bet == [Val(ps.bet_row) EXCEPT !.status = out.status,
                                       !.actual_payout = out.actual_payout]
    IN  /\ ps.pc = "finalize"
        /\ NoResult \notin ResultSet(res)
        /\ matches' = FlushMatches(ps)
        /\ results' = FlushResults(ps)
        /\ bets' = [bets EXCEPT ![b] = bet]
        /\ leaderboard' = update_leaderboard(leaderboard, BetCategory(bet), bet)
        /\ lbCalls' = [lbCalls EXCEPT ![b] = @ + 1]
        /\ pass' = [pass EXCEPT ![p] =
                      [ps EXCEPT !.pc = "bet", !.cur = 0, !.bet_row = Null,
                                 !.match_row = Null, !.loaded = <<>>,
                                 !.dirty = {},
                                 !.affected = Tail(ps.affected)]]
        /\ UNCHANGED <<lastRun, harness, backstage>>
        /\ UNCHANGED <<now, feed, adminCalls, aborts>>

(* Line 393: db.commit() after the sport's events *)
SettleCommit(p) ==
    LET ps == pass[p]
    IN  /\ ps.pc = "bet"
        /\ ps.affected = <<>>
        /\ matches' = FlushMatches(ps)
        /\ results' = FlushResults(ps)
        /\ pass' = [pass EXCEPT ![p] = NextEvent(ps)]
        /\ lastRun' = IF ps.ev = LastEvent THEN Some(ps.scores)
                       ELSE lastRun
        /\ UNCHANGED <<harness, backstage>>
        /\ UNCHANGED <<now, feed, bets, leaderboard, lbCalls, adminCalls,
                       aborts>>

(* The pass fails or is killed between two of its steps: the session is    *)
(* closed (db.close()) and what it had not committed is lost               *)
SettleAbort(p) ==
    /\ pass[p].pc # "idle"
    /\ aborts < MaxAborts
    /\ pass' = [pass EXCEPT ![p] = IdlePass]
    /\ aborts' = aborts + 1
    /\ UNCHANGED <<lastRun, harness, backstage>>
    /\ UNCHANGED <<now, feed, matches, bets, results, leaderboard, lbCalls,
                   adminCalls>>

-----------------------------------------------------------------------------
(* One step of a settlement pass *)
Settle(p) ==
    \/ SettleBegin(p)
    \/ SettleEnd(p)
    \/ SettleMatch(p)
    \/ SettleLoadBet(p)
    \/ SettleLeavePending(p)
    \/ SettleFinalize(p)
    \/ SettleCommit(p)

(* OddsSyncScheduler._trigger_settlement: the scheduler thread's pass *)
trigger_settlement == Settle("scheduler")

(* admin_settle_bets: a pass on a request thread *)
admin_settle_bets == Settle("admin")

Requests ==
    \/ \E u \in Bettors, picks \in RequestMenu, stake \in StakeMenu :
          place_bet(u, picks, stake)
    \/ \E b \in BetIdInputs, u \in Requesters : cancel_bet(b, u)
    \/ \E b \in BetIdInputs, outcome \in OutcomeInputs :
          admin_force_settle_bet(b, outcome)
    \/ \E m \in Matches, sp \in ScorePairs :
          update_match_result(m, sp[1], sp[2])

Environment ==
    \/ Tick
    \/ \E m \in Matches, sp \in ScorePairs : FeedReport(m, sp)

(* The ledger with the scheduler's passes, one after the other *)
Next ==
    \/ Environment
    \/ Requests
    \/ trigger_settlement
    \/ SettleAbort("scheduler")

Spec == Init /\ [][Next]_vars

(* The scheduler loop keeps running: a pass that can take a step takes it  *)
FairSpec == Spec /\ WF_vars(trigger_settlement)

(* Placement and settlement with the scheduler's pass and a manual pass    *)
(* at once                                                                 *)
RaceNext ==
    \/ Environment
    \/ \E u \in Bettors, picks \in RequestMenu, stake \in StakeMenu :
          place_bet(u, picks, stake)
    \/ trigger_settlement
    \/ admin_settle_bets

RaceSpec == Init /\ [][RaceNext]_vars

(* Placements, cancellations, force-settles and the scheduler's passes,    *)
(* each pass run to its end, without update_match_result                   *)
BookNext ==
    \/ Environment
    \/ \E u \in Bettors, picks \in RequestMenu, stake \in StakeMenu :
          place_bet(u, picks, stake)
    \/ \E b \in BetIdInputs, u \in Requesters : cancel_bet(b, u)
    \/ \E b \in BetIdInputs, outcome \in OutcomeInputs :
          admin_force_settle_bet(b, outcome)
    \/ trigger_settlement

BookSpec == Init /\ [][BookNext]_vars

-----------------------------------------------------------------------------
(* Resolution alone: determine_pick_result on one leg and one match row,   *)
(* both drawn from the menus below                                         *)

MaxScore == 2

ProbePicks ==
    [bet_type : {"moneyline", "spread", "total"},
     selection : {"home", "away", "draw", "over", "under"},
     point : {Null, Some(-1), Some(2)}]

ProbeMatches ==
    { CompletedRow(h, a) : h \in 0..MaxScore, a \in 0..MaxScore } \cup
    { [status |-> UPCOMING, home_score |-> Null, away_score |-> Null] }

ResolveInit ==
    /\ LedgerInit
    /\ probe \in [pick : ProbePicks, match : ProbeMatches]
    /\ verdict = NoResult

(* pick.result = determine_pick_result(pick, match) *)
Resolve ==
    /\ verdict = NoResult
    /\ verdict' = determine_pick_result(probe.pick, probe.match)
    /\ UNCHANGED <<now, feed, matches, bets, results, leaderboard, pass,
                   lbCalls, adminCalls, aborts, lastRun, probe, backstage>>

ResolveSpec == ResolveInit /\ [][Resolve]_vars

-----------------------------------------------------------------------------
(* Payout alone: calculate_payout on the odds of a list of legs and a      *)
(* stake, both drawn from the menus below                                  *)

MaxLegs == 2

PayoutOdds == {-480, -110, 150, 900}
PayoutStakes == {MinStake, 10, 105, 963, MaxStake}

(* A parlay of six long shots *)
LongParlay == <<912, 573, 572, 810, 623, 956>>

PayoutLists ==
    UNION { [1..n -> PayoutOdds] : n \in 1..MaxLegs } \cup {LongParlay}

PayoutInit ==
    /\ LedgerInit
    /\ probe \in [odds : PayoutLists, stake : PayoutStakes]
    /\ verdict = Null

(* bet.potential_payout = calculate_payout(bet_picks, request.stake) *)
Quote ==
    /\ verdict = Null
    /\ verdict' = Some(PayoutCents(probe.odds, probe.stake))
    /\ UNCHANGED <<now, feed, matches, bets, results, leaderboard, pass,
                   lbCalls, adminCalls, aborts, lastRun, probe, backstage>>

PayoutSpec == PayoutInit /\ [][Quote]_vars

-----------------------------------------------------------------------------
(* Bet intake: POST /bets alone, with every kind of request body the       *)
(* endpoint can receive                                                    *)

(* Ids a request can name: the rows of sports_matches and one id with no   *)
(* row                                                                     *)
IntakeMatchIds == Matches \cup {3}

(* BetPickRequest bodies: the two legs of the ledger, a spread leg without *)
(* a point, a moneyline leg with one, a leg on a match with no row, a leg  *)
(* with odds 0                                                             *)
IntakeLegs ==
    LegMenu \cup
    { [match_id |-> 1, bet_type |-> "spread", selection |-> "home",
       odds |-> -110, point |-> Null],
      [match_id |-> 2, bet_type |-> "moneyline", selection |-> "away",
       odds |-> 150, point |-> Some(3)],
      [match_id |-> 3, bet_type |-> "total", selection |-> "over",
       odds |-> -110, point |-> Some(2)],
      [match_id |-> 1, bet_type |-> "moneyline", selection |-> "home",
       odds |-> 0, point |-> Null] }

(* PlaceBetRequest.picks: no leg, one leg, two legs (the same leg twice    *)
(* included), and a list one longer than max_items                         *)
IntakeRequests ==
    {<< >>} \cup { <<l>> : l \in IntakeLegs }
            \cup { <<k, l>> : k \in IntakeLegs, l \in IntakeLegs }
            \cup { [i \in 1..(MaxPicks + 1) |->
                      [match_id |-> 1, bet_type |-> "moneyline",
                       selection |-> "home", odds |-> -110, point |-> Null]] }

(* PlaceBetRequest.stake: the ends of ge=1, le=1000 and one past each *)
IntakeStakes == {MinStake - 1, MinStake, 10, MaxStake, MaxStake + 1}

IntakeNext ==
    \/ Tick
    \/ \E u \in Bettors, picks \in IntakeRequests, stake \in IntakeStakes :
          place_bet(u, picks, stake)

IntakeSpec == Init /\ [][IntakeNext]_vars

-----------------------------------------------------------------------------
(* The scheduler: app/services/odds_sync_scheduler.py.  What a trigger     *)
(* does to the tables is the catalog sync and the settlement pass of the   *)
(* other sections; here a trigger is a call that takes time and returns,   *)
(* its own exceptions caught inside it (lines 204-205 and 226-227).        *)

(* start(), lines 30-43, with AUTO_SYNC_ENABLED set *)
start ==
    /\ ~sched.joining
    /\ IF sched.running
       THEN UNCHANGED <<sched, threads>>
       ELSE /\ sched.thread < MaxThreads
            /\ sched' = [sched EXCEPT !.running = TRUE, !.thread = @ + 1]
            /\ threads' = [threads EXCEPT
                             ![sched.thread + 1] =
                                [NoThread EXCEPT !.pc = "test",
                                                 !.born = wall]]
    /\ UNCHANGED <<wall, fired>>

(* stop(), lines 45-47: running is cleared, then the join begins *)
stop ==
    /\ ~sched.joining
    /\ sched' = [sched EXCEPT !.running = FALSE,
                              !.joining = sched.thread # 0]
    /\ UNCHANGED <<threads, wall, fired>>

(* stop(), lines 48-50: thread.join(timeout=5) returns when the thread has *)
(* ended, or after five seconds while the thread is still sleeping its 60  *)
(* seconds or waiting inside a trigger                                     *)
StopReturn ==
    /\ sched.joining
    /\ LET th == threads[sched.thread] IN
          \/ th.pc = "ended"
          \/ th.pc \in {"sync", "settle"}
          \/ th.pc \in {"sleep", "except_sleep"}
                /\ wall < th.since + TicksPerMinute
    /\ sched' = [sched EXCEPT !.joining = FALSE]
    /\ UNCHANGED <<threads, wall, fired>>

(* _run_scheduler, line 56 and line 91: while self.running *)
LoopTest(t) ==
    /\ threads[t].pc = "test"
    /\ threads' = [threads EXCEPT
                     ![t].pc = IF sched.running THEN "body" ELSE "ended",
                     ![t].born = IF sched.running THEN @ ELSE 0]
    /\ UNCHANGED <<sched, wall, fired>>

(* _run_scheduler, lines 58-76: the clock is read, the record of the day   *)
(* is reset on a new day, and the trigger is called when the minute is one *)
(* of sync_times and its hour is not in synced_hours                       *)
ReadClock(t) ==
    /\ threads[t].pc = "body"
    /\ LET current_day == wall \div TicksPerDay
           current_hour == (wall % TicksPerDay) \div TicksPerMinute
           synced == IF Some(current_day) # sched.last_sync_day
                     THEN {} ELSE sched.synced_hours
           due == current_hour \in sync_times /\ current_hour \notin synced
       IN /\ sched' = [sched EXCEPT !.synced_hours = synced,
                                    !.last_sync_day = Some(current_day)]
          /\ threads' = [threads EXCEPT
                           ![t].pc = IF due THEN "sync" ELSE "settle_check",
                           ![t].hour = IF due THEN current_hour ELSE 0,
                           ![t].since = IF due THEN wall ELSE 0]
          /\ fired' = IF due
                      THEN [fired EXCEPT ![current_day, current_hour] = @ + 1]
                      ELSE fired
    /\ UNCHANGED wall

(* _run_scheduler, lines 73-75: _trigger_sync() has returned, whatever     *)
(* happened inside it, and the hour is recorded                            *)
SyncReturn(t) ==
    /\ threads[t].pc = "sync"
    /\ sched' = [sched EXCEPT !.synced_hours = @ \cup {threads[t].hour}]
    /\ threads' = [threads EXCEPT ![t].pc = "settle_check", ![t].hour = 0,
                                  ![t].since = 0]
    /\ UNCHANGED <<wall, fired>>

(* _run_scheduler, lines 79-81 and 85: is a settlement due? *)
SettleCheck(t) ==
    /\ threads[t].pc = "settle_check"
    /\ threads' = [threads EXCEPT
                     ![t].pc = IF wall - sched.last_settlement_time
                                     >= SETTLEMENT_INTERVAL_TICKS
                               THEN "settle" ELSE "sleep",
                     ![t].since = wall]
    /\ UNCHANGED <<sched, wall, fired>>

(* _run_scheduler, lines 81-85: _trigger_settlement() has returned, the    *)
(* time read before the call is recorded, the thread goes to sleep         *)
SettleReturn(t) ==
    /\ threads[t].pc = "settle"
    /\ sched' = [sched EXCEPT !.last_settlement_time = threads[t].since]
    /\ threads' = [threads EXCEPT ![t].pc = "sleep", ![t].since = wall]
    /\ UNCHANGED <<wall, fired>>

(* Raise, were the exception to leave the loop *)
Raise_ends_loop(t) ==
    /\ threads[t].pc \in {"body", "settle_check"}
    /\ threads[t].faults < MaxFaults
    /\ threads' = [threads EXCEPT ![t].pc = "ended", ![t].since = 0,
                                  ![t].faults = @ + 1]
    /\ UNCHANGED <<sched, wall, fired>>

(* _run_scheduler, lines 87-89: a statement of the iteration raises *)
Raise(t) ==
    /\ threads[t].pc \in {"body", "settle_check"}
    /\ threads[t].faults < MaxFaults
    /\ threads' = [threads EXCEPT ![t].pc = "except_sleep",
                                  ![t].since = wall,
                                  ![t].faults = @ + 1]
    /\ UNCHANGED <<sched, wall, fired>>

(* time.sleep(60), lines 85 and 89, is over *)
Wake(t) ==
    /\ threads[t].pc \in {"sleep", "except_sleep"}
    /\ wall >= threads[t].since + TicksPerMinute
    /\ threads' = [threads EXCEPT ![t].pc = "test", ![t].since = 0]
    /\ UNCHANGED <<sched, wall, fired>>

(* Half a minute passes: no thread is at a statement that takes no time,   *)
(* no sleeper is due, no trigger has run for MaxTriggerTicks, no join of   *)
(* five seconds is under way                                               *)
TickWall ==
    /\ wall < MaxWall
    /\ ~sched.joining
    /\ \A t \in 1..MaxThreads :
          /\ threads[t].pc \notin {"test", "body", "settle_check"}
          /\ threads[t].pc \in {"sleep", "except_sleep"}
                => wall < threads[t].since + TicksPerMinute
          /\ threads[t].pc \in {"sync", "settle"}
                => wall < threads[t].since + MaxTriggerTicks
    /\ wall' = wall + 1
    /\ UNCHANGED <<sched, threads, fired>>

SchedNext ==
    /\ \/ start
       \/ stop
       \/ StopReturn
       \/ \E t \in 1..MaxThreads :
             \/ LoopTest(t)
             \/ ReadClock(t)
             \/ SyncReturn(t)
             \/ SettleCheck(t)
             \/ SettleReturn(t)
             \/ Raise(t)
             \/ Wake(t)
       \/ TickWall
    /\ UNCHANGED <<now, feed, matches, bets, results, leaderboard, pass,
                   lbCalls, adminCalls, aborts, lastRun, harness, sync_meta,
                   catalog, sync, inflight>>

SchedSpec == Init /\ [][SchedNext]_vars

-----------------------------------------------------------------------------
(* The catalog sync: _trigger_sync of the scheduler and the admin's        *)
(* sync_matches.  Both use one session (database.py: autoflush=False), so  *)
(* rows added in the loop reach the database at the next commit.           *)

(* timedelta(days=7), in ticks of the ledger's clock *)
RetentionTicks == 1

(* Events of the odds feed.  The feed lists every upcoming event of a      *)
(* sport, however far ahead; an event can lack a team name (the column is  *)
(* NOT NULL) or carry a commence_time that fromisoformat rejects.          *)
SyncFeeds ==
    LET near == [id |-> 1, commence_time |-> 1, flaw |-> "none"]
        far == [id |-> 2, commence_time |-> MaxTime + 1, flaw |-> "none"]
    IN  { <<near>>, <<near, far>>,
          <<near, [far EXCEPT !.flaw = "no_team"]>>,
          <<near, [far EXCEPT !.flaw = "bad_time"]>> }

(* The events among games[1..n] that have no row yet *)
NewEvents(games, n) ==
    { i \in 1..n : catalog[games[i].id] = Null }

(* The first new event whose commence_time does not parse, or 0 *)
FirstUnparsed(games) ==
    IF \E i \in NewEvents(games, Len(games)) : games[i].flaw = "bad_time"
    THEN CHOOSE i \in NewEvents(games, Len(games)) :
            /\ games[i].flaw = "bad_time"
            /\ \A j \in NewEvents(games, Len(games)) :
                  games[j].flaw = "bad_time" => i <= j
    ELSE 0

(* The rows db.add() has put in the session when the loop ends or raises *)
PendingRows(games) ==
    IF FirstUnparsed(games) = 0
    THEN NewEvents(games, Len(games))
    ELSE NewEvents(games, FirstUnparsed(games) - 1)

(* The flush of the pending rows fails: a NOT NULL column is None *)
FlushFails(games) ==
    \E i \in PendingRows(games) : games[i].flaw = "no_team"

(* The pending rows, inserted: created_at is the column default *)
Inserted(games) ==
    [e \in EventIds |->
        IF \E i \in PendingRows(games) : games[i].id = e
        THEN LET i == CHOOSE i \in PendingRows(games) : games[i].id = e
             IN Some([created_at |-> now,
                      commence_time |-> games[i].commence_time,
                      picks |-> FALSE])
        ELSE catalog[e]]

(* The except clause.  sync_matches (lines 774-782) rolls the session back *)
(* and commits "failed".  _trigger_sync (lines 194-199) commits "failed"   *)
(* without a rollback: the commit also flushes the rows still pending, and *)
(* on a session whose flush has failed it raises, which the outer except   *)
(* (lines 204-205) swallows.                                               *)
SyncFailed(kind, games) ==
    IF kind = "manual"
    THEN /\ sync_meta' = [sync_meta EXCEPT !.sync_status = "failed"]
         /\ catalog' = catalog
    ELSE IF FlushFails(games)
         THEN UNCHANGED <<sync_meta, catalog>>
         ELSE /\ sync_meta' = [sync_meta EXCEPT !.sync_status = "failed"]
              /\ catalog' = Inserted(games)

(* Lines 108-117 and 690-699: the row is fetched or created, the status is *)
(* set to running and committed                                            *)
SyncBegin(kind) ==
    /\ sync.pc = "idle"
    /\ sync' = [NoSync EXCEPT !.pc = "fetch", !.kind = kind]
    /\ sync_meta' = [sync_meta EXCEPT !.exists = TRUE,
                                      !.sync_status = "running"]
    /\ UNCHANGED catalog

(* Lines 119-121 and 700-705: the feed answers with games, or the call     *)
(* raises (the cache is down); nothing is pending then                     *)
SyncFetch(games, raised) ==
    /\ sync.pc = "fetch"
    /\ IF raised
       THEN /\ SyncFailed(sync.kind, <<>>)
            /\ sync' = NoSync
       ELSE /\ sync' = [sync EXCEPT !.pc = "upsert", !.games = games]
            /\ UNCHANGED <<sync_meta, catalog>>

(* Lines 126-157 and 710-738: the loop over the events and its commit.  An *)
(* event with a row only has its odds replaced; a new event gets a row     *)
SyncUpsert ==
    /\ sync.pc = "upsert"
    /\ IF FirstUnparsed(sync.games) # 0 \/ FlushFails(sync.games)
       THEN /\ SyncFailed(sync.kind, sync.games)
            /\ sync' = NoSync
       ELSE /\ catalog' = Inserted(sync.games)
            /\ sync' = [sync EXCEPT !.pc = "cleanup", !.games = <<>>,
                                    !.count = Len(sync.games)]
            /\ UNCHANGED sync_meta

(* Lines 159-178 and 740-758: rows created more than seven days ago that   *)
(* no pick names are deleted                                               *)
SyncCleanup ==
    /\ sync.pc = "cleanup"
    /\ catalog' = [e \in EventIds |->
                     IF /\ catalog[e] # Null
                        /\ Val(catalog[e]).created_at < now - RetentionTicks
                        /\ ~Val(catalog[e]).picks
                     THEN Null ELSE catalog[e]]
    /\ sync' = [sync EXCEPT !.pc = "finish"]
    /\ UNCHANGED sync_meta

(* Lines 180-185 and 760-765: the metadata of a finished sync *)
SyncFinish ==
    /\ sync.pc = "finish"
    /\ sync_meta' = [sync_meta EXCEPT !.last_sync_time = Some(now),
                                      !.sync_status = "success",
                                      !.games_synced = sync.count]
    /\ sync' = NoSync
    /\ UNCHANGED catalog

(* place_bet, lines 536-590, as the catalog sees it: a pick names a match  *)
(* that exists and has not started                                         *)
PickAdded(e) ==
    /\ catalog[e] # Null
    /\ ~(Val(catalog[e]).commence_time <= now)
    /\ ~Val(catalog[e]).picks
    /\ catalog' = [catalog EXCEPT ![e] = Some([Val(@) EXCEPT !.picks = TRUE])]
    /\ UNCHANGED <<sync_meta, sync>>

SyncNext ==
    \/ /\ \/ \E kind \in {"scheduled", "manual"} : SyncBegin(kind)
          \/ \E games \in SyncFeeds, raised \in BOOLEAN :
                SyncFetch(games, raised)
          \/ SyncUpsert
          \/ SyncCleanup
          \/ SyncFinish
          \/ \E e \in EventIds : PickAdded(e)
       /\ UNCHANGED <<now, feed, matches, bets, results, leaderboard, pass,
                      lbCalls, adminCalls, aborts, lastRun, harness, sched,
                      threads, wall, fired, inflight>>
    \/ Tick

SyncSpec == Init /\ [][SyncNext]_vars

-----------------------------------------------------------------------------
(* The settlement pass on events with flaws: the first match is reported   *)
(* with any of the lists below, flagged completed or not; the second as in *)
(* the ledger                                                              *)

ScoreLists ==
    { <<>>,
      <<[name |-> "home", score |-> Some("1")],
        [name |-> "away", score |-> Some("0")]>>,
      <<[name |-> "home", score |-> Some("1")]>>,
      <<[name |-> "home", score |-> Some("1")],
        [name |-> "away", score |-> Null]>>,
      <<[name |-> "home", score |-> Some("1")],
        [name |-> "away", score |-> Some("x")]>>,
      <<[name |-> "home", score |-> Some("1")],
        [name |-> "other", score |-> Some("0")]>> }

ScoresReport(m, completed, entries) ==
    /\ now > CommenceTime(m)
    /\ \/ ~feed[m].completed
       \/ \E parsed \in {ParsedScores(feed[m].scores)} :
             parsed.home = Null \/ parsed.away = Null
    /\ feed' = [feed EXCEPT ![m] = [completed |-> completed,
                                    scores |-> entries]]
    /\ UNCHANGED <<lastRun, harness, backstage>>
    /\ UNCHANGED <<now, matches, bets, results, leaderboard, pass, lbCalls,
                   adminCalls, aborts>>

ScoreNext ==
    \/ Tick
    \/ \E completed \in BOOLEAN, entries \in ScoreLists :
          ScoresReport(1, completed, entries)
    \/ \E m \in Matches \ {1}, sp \in ScorePairs : FeedReport(m, sp)
    \/ \E u \in Bettors, picks \in RequestMenu, stake \in StakeMenu :
          place_bet(u, picks, stake)
    \/ trigger_settlement

ScoreSpec == Init /\ [][ScoreNext]_vars

-----------------------------------------------------------------------------
(* cancel_bet as two steps of one request, with the other handlers free    *)
(* to commit in between: no row is locked and no version is compared       *)

(* cancel_bet, lines 798-827: the bet and its picks are loaded, the checks *)
(* of owner, status and start times pass                                   *)
cancel_check(bet_id, user_id) ==
    /\ inflight = Null
    /\ bet_id \in BetIds
    /\ bets[bet_id].user_id = user_id \/ IsAdmin(user_id)
    /\ bets[bet_id].status = PENDING
    /\ \A i \in LegIds(bet_id) :
          ~(CommenceTime(bets[bet_id].picks[i].match_id) <= now)
    /\ inflight' = Some([bet_id |-> bet_id, bet |-> bets[bet_id]])
    /\ UNCHANGED <<now, feed, matches, bets, results, leaderboard, pass,
                   lbCalls, adminCalls, aborts, lastRun, harness, sched,
                   threads, wall, fired, sync_meta, catalog, sync>>

(* cancel_bet, lines 829-867: status, payout and pick results are set on   *)
(* the rows loaded, the leaderboard row is read and reversed, all is       *)
(* committed                                                               *)
cancel_commit ==
    /\ inflight # Null
    /\ LET bet_id == Val(inflight).bet_id
           bet == Val(inflight).bet
       IN  /\ bets' = [bets EXCEPT ![bet_id].status = CANCELLED,
                                   ![bet_id].actual_payout = 100 * bet.stake]
           /\ results' = [results EXCEPT
                            ![bet_id] = [i \in LegIds(bet_id) |-> CANCELLED]]
           /\ leaderboard' =
                [leaderboard EXCEPT ![BetCategory(bet)] = CancelRow(@, bet)]
    /\ inflight' = Null
    /\ UNCHANGED <<now, feed, matches, pass, lbCalls, adminCalls, aborts,
                   lastRun, harness, sched, threads, wall, fired, sync_meta,
                   catalog, sync>>

DuelNext ==
    \/ Environment
    \/ \E u \in Bettors, picks \in RequestMenu, stake \in StakeMenu :
          place_bet(u, picks, stake)
    \/ \E b \in BetIdInputs, u \in Requesters : cancel_check(b, u)
    \/ cancel_commit
    \/ \E b \in BetIdInputs, outcome \in OutcomeInputs :
          admin_force_settle_bet(b, outcome)
    \/ trigger_settlement

DuelSpec == Init /\ [][DuelNext]_vars

-----------------------------------------------------------------------------
(* Properties *)

AllReported(b) ==
    \A i \in LegIds(b) :
       LET e == feed[bets[b].picks[i].match_id]
       IN  /\ e.completed
           /\ ParsedScores(e.scores).home # Null
           /\ ParsedScores(e.scores).away # Null

(* C4: with the scheduler's passes weakly fair, a pending bet all of whose *)
(* matches the feed has reported completed with both scores is eventually  *)
(* won, lost or push.                                                      *)
ReportedBetSettles ==
    \A b \in 1..MaxBets :
       (b \in BetIds /\ bets[b].status = PENDING /\ AllReported(b))
          ~> (b \in BetIds /\ bets[b].status \in {WON, LOST, PUSH})

(* The batch of match m is committed whole: m completed in the database    *)
(* has a result on each of its legs, and no bet on m with every leg        *)
(* resolved is pending                                                     *)
BatchWhole(m) ==
    matches[m].status = COMPLETED =>
       \A b \in BetsOnMatch(m) :
          /\ \A i \in LegIds(b) :
                bets[b].picks[i].match_id = m => results[b][i] # NoResult
          /\ ~(bets[b].status = PENDING
               /\ NoResult \notin ResultSet(results[b]))

SecondRunChangesNothing ==
    [][(trigger_settlement
        /\ pass["scheduler"].pc # "idle"
        /\ lastRun = Some(pass["scheduler"].scores))
          => UNCHANGED <<matches, bets, results, leaderboard>>]_vars

(* A second pass is under way on the scores of the first, which settled a  *)
(* bet on a match those scores report                                      *)
SecondRunUnderWay ==
    /\ pass["scheduler"].pc # "idle"
    /\ lastRun = Some(pass["scheduler"].scores)
    /\ adminCalls = 0
    /\ \E b \in BetIds :
          /\ bets[b].status \in {WON, LOST, PUSH}
          /\ AllReported(b)

(* Bets of category c that a pass has settled *)
SettledIn(c) ==
    { b \in BetIds : /\ bets[b].status \in {WON, LOST, PUSH}
                     /\ BetCategory(bets[b]) = c }

OutcomeRule(bet, res) ==
    LET R == ResultSet(res)
    IN  /\ LOST \in R => bet.status = LOST /\ bet.actual_payout = 0
        /\ R = {WON} =>
              bet.status = WON /\ bet.actual_payout = bet.potential_payout
        /\ R = {PUSH} =>
              bet.status = PUSH /\ bet.actual_payout = 100 * bet.stake
        /\ R = {WON, PUSH} =>
              /\ bet.status = WON
              /\ bet.actual_payout =
                    calculate_payout(WonLegs(bet.picks, res), bet.stake)

(* C9: a pass that finalizes a bet gives it the status and the payout of   *)
(* the outcome rule: lost with 0 on any lost leg, else won with the        *)
(* potential payout when all legs won, push with the stake when all legs   *)
(* pushed, and won with the payout of the won legs on won and push legs.   *)
FinalizedByRule ==
    [][SettleFinalize("scheduler") =>
          LET b == pass["scheduler"].cur
          IN  OutcomeRule(bets'[b], results'[b])]_vars

(* A pass has finalized a parlay of a won and a pushed leg, paid on the    *)
(* won leg alone                                                           *)
MixedParlayPaid ==
    \E b \in BetIds :
       /\ ResultSet(results[b]) = {WON, PUSH}
       /\ bets[b].status = WON
       /\ lbCalls[b] = 1
       /\ adminCalls = 0
       /\ bets[b].actual_payout # bets[b].potential_payout
       /\ bets[b].actual_payout =
             calculate_payout(WonLegs(bets[b].picks, results[b]),
                              bets[b].stake)

(* C10: a moneyline leg on a completed match: on a tie draw is won and     *)
(* home and away are lost; else the winning side is won and the other      *)
(* side and draw are lost.                                                 *)
MoneylineRule ==
    (/\ verdict # NoResult
     /\ probe.pick.bet_type = "moneyline"
     /\ probe.pick.selection \in {"home", "away", "draw"}
     /\ probe.match.status = COMPLETED) =>
       LET h == Val(probe.match.home_score)
           a == Val(probe.match.away_score)
           winner == IF h = a THEN "draw"
                     ELSE IF h > a THEN "home" ELSE "away"
       IN  verdict = IF probe.pick.selection = winner THEN WON ELSE LOST

(* The result of a leg against its number: push on the number, else won    *)
(* when the side's comparison holds and lost when it does not              *)
LineResult(onNumber, sideWins) ==
    IF onNumber THEN PUSH ELSE IF sideWins THEN WON ELSE LOST

FactorNum(o) == IF o > 0 THEN o + 100 ELSE 100 + Abs(o)
FactorDen(o) == IF o > 0 THEN 100 ELSE Abs(o)

(* The products of the factors' numerators and denominators *)
RECURSIVE ProductNum(_)
ProductNum(odds) ==
    IF odds = <<>> THEN <<1>>
    ELSE BigMulSmall(ProductNum(Tail(odds)), FactorNum(Head(odds)))

RECURSIVE ProductDen(_)
ProductDen(odds) ==
    IF odds = <<>> THEN <<1>>
    ELSE BigMulSmall(ProductDen(Tail(odds)), FactorDen(Head(odds)))

(* cents is stake times the product of the factors rounded to two          *)
(* decimals: no more than half a cent from it, either way on a tie         *)
RoundedProduct(cents, odds, stake) ==
    LET got == BigMul(cents, ProductDen(odds))
        want == BigMulSmall(BigMulSmall(ProductNum(odds), stake), 100)
        gap == IF BigLess(got, want) THEN BigSub(want, got)
               ELSE BigSub(got, want)
    IN  ~BigLess(ProductDen(odds), BigMulSmall(gap, 2))

(* C12: for a stake in 1..1000 and 1..10 legs of non-zero odds             *)
(* calculate_payout returns the stake times the product of the legs'       *)
(* decimal factors, rounded to two decimals.                               *)
PayoutIsRoundedProduct ==
    verdict # Null =>
       RoundedProduct(Val(verdict), probe.odds, probe.stake)

RECURSIVE StakeSum(_)
StakeSum(S) ==
    IF S = {} THEN 0
    ELSE LET b == CHOOSE x \in S : TRUE
         IN  bets[b].stake + StakeSum(S \ {b})

(* In cents *)
RECURSIVE PayoutSum(_)
PayoutSum(S) ==
    IF S = {} THEN 0
    ELSE LET b == CHOOSE x \in S : TRUE
         IN  bets[b].actual_payout + PayoutSum(S \ {b})

StoredPointMatchesType ==
    \A b \in BetIds : \A k \in LegIds(b) :
       LET pick == bets[b].picks[k]
       IN  IF pick.bet_type \in {"spread", "total"}
           THEN pick.point # Null
           ELSE pick.point = Null

(* A request that names a match with no row, or a match whose start is not *)
(* after the time of the request                                           *)
NamesMissingOrStarted(picks) ==
    \E i \in DOMAIN picks :
       \/ picks[i].match_id \notin Matches
       \/ CommenceTime(picks[i].match_id) <= now

(* One more bet, pending, with one pick per leg of the request, each with  *)
(* the request's fields and no result; the rows stored before are as they  *)
(* were                                                                    *)
PlacedAsRequested(picks) ==
    /\ Len(bets') = Len(bets) + 1
    /\ SubSeq(bets', 1, Len(bets)) = bets
    /\ SubSeq(results', 1, Len(results)) = results
    /\ Len(results') = Len(bets')
    /\ LET bet == bets'[Len(bets')]
           res == results'[Len(bets')]
       IN  /\ bet.status = PENDING
           /\ Len(bet.picks) = Len(picks)
           /\ DOMAIN res = DOMAIN picks
           /\ \A i \in DOMAIN picks :
                 /\ bet.picks[i].match_id = picks[i].match_id
                 /\ bet.picks[i].odds = picks[i].odds
                 /\ res[i] = NoResult

(* C15: place-bet persists nothing when a referenced match does not exist  *)
(* or has started by the time of the request; when it succeeds it persists *)
(* exactly one pending bet and one pick per leg, each with a null result   *)
(* and the odds of the request.                                            *)
PlacementAllOrNothing ==
    [][\A u \in Bettors, picks \in IntakeRequests, stake \in IntakeStakes :
          place_bet(u, picks, stake) =>
             /\ ~NamesMissingOrStarted(picks)
             /\ PlacedAsRequested(picks)]_vars

(* A parlay was placed before its matches started, which they since have   *)
ParlayPlacedBeforeStart ==
    \E b \in BetIds :
       /\ bets[b].status = PENDING
       /\ bets[b].is_parlay
       /\ \A k \in LegIds(b) :
             /\ results[b][k] = NoResult
             /\ CommenceTime(bets[b].picks[k].match_id) <= now

(* C16: every persisted bet has between 1 and 10 picks, total_picks equal  *)
(* to their number, is_parlay true exactly when there is more than one, a  *)
(* stake between 1 and 1000, and no two picks with the same match, bet     *)
(* type and selection.                                                     *)
BetShapeKept ==
    \A b \in BetIds :
       LET bet == bets[b]
       IN  /\ Len(bet.picks) >= 1 /\ Len(bet.picks) <= 10
           /\ bet.total_picks = Len(bet.picks)
           /\ bet.is_parlay <=> (Len(bet.picks) > 1)
           /\ bet.stake >= 1 /\ bet.stake <= 1000
           /\ \A i, j \in LegIds(b) :
                 i # j =>
                    \/ bet.picks[i].match_id # bet.picks[j].match_id
                    \/ bet.picks[i].bet_type # bet.picks[j].bet_type
                    \/ bet.picks[i].selection # bet.picks[j].selection

(* A single at the smallest stake and a parlay at the largest are stored *)
SingleAndParlayStored ==
    /\ \E b \in BetIds : ~bets[b].is_parlay /\ bets[b].stake = 1
    /\ \E b \in BetIds : bets[b].is_parlay /\ bets[b].stake = 1000

(* C17: a cancel takes effect only on a bet that exists and is pending,    *)
(* for its owner or an admin, while every match of the bet starts strictly *)
(* after the time of the cancel; otherwise it fails and changes nothing.   *)
CancelOnlyWhenAllowed ==
    [][\A b \in 0..(MaxBets + 1), u \in Requesters :
          cancel_bet(b, u) =>
             /\ b \in BetIds
             /\ bets[b].status = PENDING
             /\ bets[b].user_id = u \/ IsAdmin(u)
             /\ \A k \in LegIds(b) :
                   CommenceTime(bets[b].picks[k].match_id) > now]_vars

(* One bet was cancelled in time; another is still pending after its       *)
(* matches have started, where a cancel is refused                         *)
CancelledAndTooLate ==
    /\ \E b \in BetIds : bets[b].status = CANCELLED
    /\ \E b \in BetIds :
          /\ bets[b].status = PENDING
          /\ \E k \in LegIds(b) :
                CommenceTime(bets[b].picks[k].match_id) <= now

CompletedMatchFrozen ==
    [][\A m \in Matches :
          matches[m].status = COMPLETED =>
             /\ matches'[m].status = COMPLETED
             /\ matches'[m].home_score = matches[m].home_score
             /\ matches'[m].away_score = matches[m].away_score]_vars

(* C21: whatever start() and stop() calls are made, at most one scheduler  *)
(* loop is inside an iteration at any time, so that no trigger runs        *)
(* alongside itself.                                                       *)
OneLoopAtATime ==
    Cardinality({ t \in 1..MaxThreads : threads[t].pc \in {"body", "sync", "settle_check", "settle"} }) <= 1

(* C22: the catalog refresh is triggered at most once for each configured  *)
(* time of day on each calendar day.                                       *)
FiredOncePerSlot ==
    \A d \in 0..(MaxWall \div TicksPerDay), h \in sync_times : fired[d, h] <= 1

(* C23: a scheduler thread ends only at the test of the while loop, with   *)
(* running false; an exception raised inside an iteration sends the thread *)
(* to the sleep of the except clause and from there back to the test.      *)
LoopEndsOnlyWhenStopped ==
    [][\A t \in 1..MaxThreads :
          /\ (threads[t].pc # "ended" /\ threads'[t].pc = "ended")
                => threads[t].pc = "test" /\ ~sched.running
          /\ threads'[t].faults > threads[t].faults
                => threads'[t].pc = "except_sleep"
          /\ threads[t].pc = "except_sleep" /\ threads'[t].pc # "except_sleep"
                => threads'[t].pc = "test"
      ]_vars

(* A thread that caught an exception is inside a later iteration *)
IteratesAfterException ==
    \E t \in 1..MaxThreads : threads[t].faults > 0 /\ threads[t].pc \in {"body", "sync", "settle_check", "settle"}

(* The first tick of the minute h of day d *)
SlotStart(d, h) == d * TicksPerDay + h * TicksPerMinute

(* C24: while the scheduler runs, started before a configured time of day, *)
(* never stopped and with no exception in its loop, the refresh has been   *)
(* triggered for that time once its minute is over.                        *)
FiresAtEachTime ==
    \A d \in 0..(MaxWall \div TicksPerDay), h \in sync_times :
       ( /\ sched.running /\ sched.thread = 1
         /\ threads[1].faults = 0
         /\ threads[1].born <= SlotStart(d, h)
         /\ wall >= SlotStart(d, h) + TicksPerMinute )
       => fired[d, h] >= 1

(* C25: the cleanup of a sync deletes a match only when its start lies     *)
(* more than seven days back and no pick names it.                         *)
CleanupOnlyOldUnpicked ==
    [][\A e \in EventIds :
          (catalog[e] # Null /\ catalog'[e] = Null)
             => /\ Val(catalog[e]).commence_time < now - RetentionTicks
                /\ ~Val(catalog[e]).picks
      ]_vars

(* C30: when a sync returns, scheduled or manual, the recorded status is   *)
(* success or failed; last_sync_time and games_synced are written only by  *)
(* the step that records success.                                          *)
SyncStatusSettled ==
    [][/\ (sync.pc # "idle" /\ sync'.pc = "idle")
             => sync_meta'.sync_status \in {"success", "failed"}
       /\ ( \/ sync_meta'.last_sync_time # sync_meta.last_sync_time
            \/ sync_meta'.games_synced # sync_meta.games_synced )
             => sync.pc = "finish" /\ sync_meta'.sync_status = "success"
      ]_vars

NumberIn(entry) ==
    entry.score # Null /\ Val(entry.score) \in {"0", "1", "2", "3"}

(* The event is flagged completed and lists a number for each team *)
EventGood(ev) ==
    /\ ev.completed
    /\ \E i \in DOMAIN ev.scores :
          ev.scores[i].name = "home" /\ NumberIn(ev.scores[i])
    /\ \E i \in DOMAIN ev.scores :
          ev.scores[i].name = "away" /\ NumberIn(ev.scores[i])

(* Pass p holds such an event for match m *)
HoldsGood(p, m) ==
    m \in DOMAIN pass[p].scores /\ EventGood(pass[p].scores[m])

(* C27: a settlement pass marks a match completed, and resolves picks on   *)
(* it, only for an event flagged completed that lists a whole-number score *)
(* for both teams; a completed match has both scores; a pass that returns  *)
(* has completed the match of every such event, having skipped the others. *)
ScoreRule ==
    [][\A m \in Matches :
          /\ matches'[m].status = COMPLETED
                => /\ matches'[m].home_score # Null
                   /\ matches'[m].away_score # Null
          /\ (matches[m].status # COMPLETED /\ matches'[m].status = COMPLETED)
                => \E p \in Passes : HoldsGood(p, m)
          /\ \A b \in BetIds : \A i \in LegIds(b) :
                ( /\ bets[b].picks[i].match_id = m
                  /\ results[b][i] = NoResult
                  /\ results'[b][i] # NoResult )
                => \E p \in Passes : HoldsGood(p, m)
          /\ \A p \in Passes :
                ( /\ pass[p].pc \notin {"idle"}
                  /\ pass'[p].pc = "idle"
                  /\ aborts' = aborts
                  /\ HoldsGood(p, m) )
                => matches'[m].status = COMPLETED
      ]_vars

(* A pass has returned: it skipped the flawed event of the first match,    *)
(* whose bet is still pending, and completed the second match              *)
FlawedEventSkipped ==
    /\ lastRun = Some(feed)
    /\ pass["scheduler"].pc = "idle"
    /\ feed[1].completed
    /\ feed[1].scores # <<>>
    /\ ~EventGood(feed[1])
    /\ matches[1].status # COMPLETED
    /\ \E m \in Matches \ {1} : matches[m].status = COMPLETED
    /\ \E b \in BetIds :
          /\ bets[b].status = PENDING
          /\ \E i \in LegIds(b) :
                /\ bets[b].picks[i].match_id = 1
                /\ results[b][i] = NoResult

=============================================================================
